---- MODULE Spec2Model ----
(***************************************************************************)
(* GeoWKTer v2.0.0 (WKT -> GeoJSON converter), modelled as a state machine *)
(* over one call sequence on one GeoWKTer instance.                        *)
(*                                                                         *)
(* A JavaScript string is a sequence of one-character strings, so that the *)
(* character scans and the regular expressions of the source are computed  *)
(* position by position.  A JavaScript number is the record Num(n), and    *)
(* the not-a-number value is the record NaN.  The numeric literals of the  *)
(* model's inputs are signed decimal integers.                             *)
(***************************************************************************)
EXTENDS Integers, Sequences, FiniteSets, TLC

\* ------------------------------------------------------------------------
\* Bounds of the input space
\* ------------------------------------------------------------------------
MaxMembers == 2
MaxNest == 2
MaxPolys == 2
MaxRings == 2
MaxPoints == 3
MaxLines == 2
MaxCalls == 3

\* ------------------------------------------------------------------------
\* Characters and the primitive string operations of JavaScript
\* ------------------------------------------------------------------------
UpperSeq == <<"A","B","C","D","E","F","G","H","I","J","K","L","M",
              "N","O","P","Q","R","S","T","U","V","W","X","Y","Z">>
LowerSeq == <<"a","b","c","d","e","f","g","h","i","j","k","l","m",
              "n","o","p","q","r","s","t","u","v","w","x","y","z">>
DigitSeq == <<"0","1","2","3","4","5","6","7","8","9">>

Range(f) == {f[i] : i \in DOMAIN f}

Upper == Range(UpperSeq)
Lower == Range(LowerSeq)
Digit == Range(DigitSeq)

\* \s of a JavaScript regular expression (the characters the inputs use)
IsWs(c) == c \in {" ", "\t", "\n", "\r"}
\* [\n\r]
IsNewline(c) == c \in {"\n", "\r"}
\* \w
IsWord(c) == c \in Upper \cup Lower \cup Digit \cup {"_"}
\* [A-Z] under the i flag
IsLetter(c) == c \in Upper \cup Lower

Min(S) == CHOOSE x \in S : \A y \in S : x <= y
Max(S) == CHOOSE x \in S : \A y \in S : x >= y

\* String.prototype.toUpperCase
ToUpperChar(c) ==
  IF c \in Lower THEN UpperSeq[CHOOSE i \in 1..26 : LowerSeq[i] = c] ELSE c
ToUpperCase(s) == [i \in 1..Len(s) |-> ToUpperChar(s[i])]

\* String.prototype.trim
Trim(s) ==
  LET keep == {i \in 1..Len(s) : ~IsWs(s[i])}
  IN IF keep = {} THEN <<>> ELSE SubSeq(s, Min(keep), Max(keep))

\* String.prototype.startsWith(t, i), i a 0-based position held 1-based here
StartsWith(s, t, p) ==
  /\ p + Len(t) - 1 <= Len(s)
  /\ \A k \in 1..Len(t) : s[p + k - 1] = t[k]

\* String.prototype.split(c) for a one-character separator
RECURSIVE SplitFrom(_, _, _)
SplitFrom(s, c, from) ==
  LET hits == {i \in from..Len(s) : s[i] = c}
  IN IF hits = {} THEN <<SubSeq(s, from, Len(s))>>
     ELSE <<SubSeq(s, from, Min(hits) - 1)>> \o SplitFrom(s, c, Min(hits) + 1)
Split(s, c) == SplitFrom(s, c, 1)

\* String.prototype.replace(/[()]/g, "")
StripParens(s) == SelectSeq(s, LAMBDA c : c \notin {"(", ")"})

\* ------------------------------------------------------------------------
\* Numbers
\* ------------------------------------------------------------------------
Num(n) == [nan |-> FALSE, v |-> n]
NaN == [nan |-> TRUE, v |-> 0]

DigitVal(c) == (CHOOSE i \in 1..10 : DigitSeq[i] = c) - 1

RECURSIVE DigitsVal(_)
DigitsVal(s) ==
  IF s = <<>> THEN 0
  ELSE 10 * DigitsVal(SubSeq(s, 1, Len(s) - 1)) + DigitVal(s[Len(s)])

\* Number(str): whitespace is stripped, the empty string is 0, a signed
\* decimal integer is its value, anything else is NaN
Number(str) ==
  LET t == Trim(str)
      signed == t # <<>> /\ t[1] \in {"-", "+"}
      digits == IF signed THEN Tail(t) ELSE t
  IN IF t = <<>> THEN Num(0)
     ELSE IF digits # <<>> /\ \A i \in 1..Len(digits) : digits[i] \in Digit
          THEN Num(IF t[1] = "-" THEN 0 - DigitsVal(digits) ELSE DigitsVal(digits))
          ELSE NaN

\* ------------------------------------------------------------------------
\* Results of a call: a returned value or a thrown Error
\* ------------------------------------------------------------------------
Ok(v) == [ok |-> TRUE, err |-> "", kw |-> <<>>, val |-> v]
Throw(e, k) == [ok |-> FALSE, err |-> e, kw |-> k, val |-> <<>>]

\* the first element of a sequence of results that is a thrown Error
\* (Array.prototype.map / forEach stop at the first callback that throws)
FirstThrow(rs) == rs[Min({i \in 1..Len(rs) : ~rs[i].ok})]
AllOk(rs) == \A i \in 1..Len(rs) : rs[i].ok
Vals(rs) == [i \in 1..Len(rs) |-> rs[i].val]
\* the array that map builds from the callback results rs, or the first throw
Collect(rs) == IF AllOk(rs) THEN Ok(Vals(rs)) ELSE FirstThrow(rs)

\* ------------------------------------------------------------------------
\* cleanWKTString
\* ------------------------------------------------------------------------
\* the last position of the run of characters satisfying P that starts at
\* position i (i - 1 when s[i] does not satisfy P)
RunEnd(s, i, P(_)) ==
  LET stops == {j \in i..Len(s) : ~P(s[j])}
  IN IF stops = {} THEN Len(s) ELSE Min(stops) - 1

\* String.prototype.replace with a global pattern takes the matches left to
\* right without overlap.  For each pattern, XEnd(s, p) is the last position
\* of the match that starts at position p (0 when none starts there), and
\* the operator below it rewrites s from position i on.

\* /[\n\r]+/g
NewlinesEnd(s, p) == IF IsNewline(s[p]) THEN RunEnd(s, p, IsNewline) ELSE 0

\* .replace(/[\n\r]+/g, " ")
RECURSIVE ReplaceNewlines(_, _)
ReplaceNewlines(s, i) ==
  LET at == {p \in i..Len(s) : NewlinesEnd(s, p) # 0}
  IN IF at = {} THEN SubSeq(s, i, Len(s))
     ELSE SubSeq(s, i, Min(at) - 1) \o <<" ">>
          \o ReplaceNewlines(s, NewlinesEnd(s, Min(at)) + 1)

\* /\s\s+/g
SpacesEnd(s, p) ==
  IF IsWs(s[p]) /\ p < Len(s) /\ IsWs(s[p + 1]) THEN RunEnd(s, p, IsWs) ELSE 0

\* .replace(/\s\s+/g, " ")
RECURSIVE CollapseSpaces(_, _)
CollapseSpaces(s, i) ==
  LET at == {p \in i..Len(s) : SpacesEnd(s, p) # 0}
  IN IF at = {} THEN SubSeq(s, i, Len(s))
     ELSE SubSeq(s, i, Min(at) - 1) \o <<" ">>
          \o CollapseSpaces(s, SpacesEnd(s, Min(at)) + 1)

\* /([A-Z]+)\s*\(/g
TypeParenEnd(s, p) ==
  LET e == RunEnd(s, p, LAMBDA c : c \in Upper)
      f == RunEnd(s, e + 1, IsWs)
  IN IF s[p] \in Upper /\ f < Len(s) /\ s[f + 1] = "(" THEN f + 1 ELSE 0

\* .replace(/([A-Z]+)\s*\(/g, "$1(")
RECURSIVE JoinTypeParen(_, _)
JoinTypeParen(s, i) ==
  LET at == {p \in i..Len(s) : TypeParenEnd(s, p) # 0}
  IN IF at = {} THEN SubSeq(s, i, Len(s))
     ELSE SubSeq(s, i, RunEnd(s, Min(at), LAMBDA c : c \in Upper)) \o <<"(">>
          \o JoinTypeParen(s, TypeParenEnd(s, Min(at)) + 1)

\* /\(\s+/g and /,\s+/g, d the delimiter
SpacesAfterEnd(s, d, p) ==
  IF s[p] = d /\ p < Len(s) /\ IsWs(s[p + 1]) THEN RunEnd(s, p + 1, IsWs) ELSE 0

\* .replace(/\(\s+/g, "(") and .replace(/,\s+/g, ",")
RECURSIVE DropSpacesAfter(_, _, _)
DropSpacesAfter(s, d, i) ==
  LET at == {p \in i..Len(s) : SpacesAfterEnd(s, d, p) # 0}
  IN IF at = {} THEN SubSeq(s, i, Len(s))
     ELSE SubSeq(s, i, Min(at))
          \o DropSpacesAfter(s, d, SpacesAfterEnd(s, d, Min(at)) + 1)

\* /\s+\)/g and /\s+,/g, d the delimiter
SpacesBeforeEnd(s, d, p) ==
  LET f == RunEnd(s, p, IsWs)
  IN IF IsWs(s[p]) /\ f < Len(s) /\ s[f + 1] = d THEN f + 1 ELSE 0

\* .replace(/\s+\)/g, ")") and .replace(/\s+,/g, ",")
RECURSIVE DropSpacesBefore(_, _, _)
DropSpacesBefore(s, d, i) ==
  LET at == {p \in i..Len(s) : SpacesBeforeEnd(s, d, p) # 0}
  IN IF at = {} THEN SubSeq(s, i, Len(s))
     ELSE SubSeq(s, i, Min(at) - 1) \o <<d>>
          \o DropSpacesBefore(s, d, SpacesBeforeEnd(s, d, Min(at)) + 1)

\* the chain of replace calls, innermost first, then trim
cleanWKTString(wkt) ==
  Trim(
    DropSpacesBefore(
      DropSpacesAfter(
        DropSpacesBefore(
          DropSpacesAfter(
            JoinTypeParen(CollapseSpaces(ReplaceNewlines(wkt, 1), 1), 1),
            "(", 1),
          ")", 1),
        ",", 1),
      ",", 1))

\* ------------------------------------------------------------------------
\* Shape-specific parsers
\* ------------------------------------------------------------------------
\* parsePoint as it would be if the empty pieces of the split were dropped
parsePointSkippingEmpty(str) ==
  LET toks == SelectSeq(Split(Trim(str), " "), LAMBDA tok : tok # <<>>)
  IN [i \in 1..Len(toks) |-> Number(toks[i])]

\* str.trim().split(" ").map(Number)
parsePoint(str) ==
  LET toks == Split(Trim(str), " ")
  IN [i \in 1..Len(toks) |-> Number(toks[i])]

\* str.split(",").map(pair => pair.trim().split(" ").map(Number))
parseLineString(str) ==
  LET pairs == Split(str, ",")
  IN [i \in 1..Len(pairs) |-> parsePoint(pairs[i])]

\* the end of a match of /\([^()]+\)/ that starts at position p, 0 if none
GroupEnd(s, p) ==
  LET parens == {q \in (p + 1)..Len(s) : s[q] \in {"(", ")"}}
  IN IF s[p] # "(" \/ parens = {} THEN 0
     ELSE IF s[Min(parens)] = ")" /\ Min(parens) >= p + 2 THEN Min(parens) ELSE 0

\* str.match(/\([^()]+\)/g): the matches from position `from` on, in order
\* (the empty sequence stands for the null that match returns)
RECURSIVE MatchGroups(_, _)
MatchGroups(s, from) ==
  LET starts == {p \in from..Len(s) : GroupEnd(s, p) # 0}
  IN IF starts = {} THEN <<>>
     ELSE <<SubSeq(s, Min(starts), GroupEnd(s, Min(starts)))>>
          \o MatchGroups(s, GroupEnd(s, Min(starts)) + 1)

\* .map over the matched rings; null.map(...) is a TypeError
MapRings(rings) ==
  IF rings = <<>> THEN Throw("TypeError", <<>>)
  ELSE Ok([i \in 1..Len(rings) |-> parseLineString(StripParens(rings[i]))])

parsePolygon(str) == MapRings(MatchGroups(str, 1))

\* parseMultiPoint as it would be without the else branch, like parsePolygon
MapPointsParenOnly(str, matchParenPoints) ==
  IF matchParenPoints # <<>>
  THEN Ok([i \in 1..Len(matchParenPoints) |->
             parsePoint(Trim(StripParens(matchParenPoints[i])))])
  ELSE Throw("TypeError", <<>>)

\* /\(\s*([^()]+)\s*\)/g matches the same spans as /\([^()]+\)/g: the two
\* \s* are runs of characters that [^()]+ matches as well
MapPoints(str, matchParenPoints) ==
  IF matchParenPoints # <<>>
  THEN Ok([i \in 1..Len(matchParenPoints) |->
             parsePoint(Trim(StripParens(matchParenPoints[i])))])
  ELSE Ok(parseLineString(str))

\* str.split(",").map(this.parsePoint.bind(this)) is what parseLineString does
parseMultiPoint(str) == MapPoints(str, MatchGroups(str, 1))

\* .map over the matched linestrings; null.map(...) is a TypeError
MapLines(lines) ==
  IF lines = <<>> THEN Throw("TypeError", <<>>)
  ELSE Ok([i \in 1..Len(lines) |-> parseLineString(Trim(StripParens(lines[i])))])

parseMultiLineString(str) == MapLines(MatchGroups(str, 1))

\* the end of a match of /\(\([^)]+\)\)/ that starts at position p, 0 if none
PolygonEnd(s, p) ==
  LET closes == {q \in (p + 2)..Len(s) : s[q] = ")"}
  IN IF p + 1 > Len(s) \/ s[p] # "(" \/ s[p + 1] # "(" \/ closes = {} THEN 0
     ELSE LET q == Min(closes)
          IN IF q >= p + 3 /\ q < Len(s) /\ s[q + 1] = ")" THEN q + 1 ELSE 0

\* str.match(/\(\([^)]+\)\)/g)
RECURSIVE MatchPolygons(_, _)
MatchPolygons(s, from) ==
  LET starts == {p \in from..Len(s) : PolygonEnd(s, p) # 0}
  IN IF starts = {} THEN <<>>
     ELSE <<SubSeq(s, Min(starts), PolygonEnd(s, Min(starts)))>>
          \o MatchPolygons(s, PolygonEnd(s, Min(starts)) + 1)

\* polygonStr.slice(1, -1)
SliceInner(polygonStr) == SubSeq(polygonStr, 2, Len(polygonStr) - 1)

MapPolygons(polygonMatches) ==
  IF polygonMatches = <<>> THEN Throw("Invalid MULTIPOLYGON WKT format", <<>>)
  ELSE Collect([i \in 1..Len(polygonMatches) |->
                  parsePolygon(SliceInner(polygonMatches[i]))])

parseMultiPolygon(str) == MapPolygons(MatchPolygons(str, 1))

\* ------------------------------------------------------------------------
\* Type keywords
\* ------------------------------------------------------------------------
POINT == <<"P","O","I","N","T">>
LINESTRING == <<"L","I","N","E","S","T","R","I","N","G">>
POLYGON == <<"P","O","L","Y","G","O","N">>
MULTIPOINT == <<"M","U","L","T","I">> \o POINT
MULTILINESTRING == <<"M","U","L","T","I">> \o LINESTRING
MULTIPOLYGON == <<"M","U","L","T","I">> \o POLYGON
GEOMETRYCOLLECTION ==
  <<"G","E","O","M","E","T","R","Y","C","O","L","L","E","C","T","I","O","N">>

\* ------------------------------------------------------------------------
\* extractGeometries
\* ------------------------------------------------------------------------
geometryTypes ==
  <<POINT, LINESTRING, POLYGON, MULTIPOINT, MULTILINESTRING, MULTIPOLYGON>>

\* the local depth after the character at position i has been counted
DepthAt(str, i) ==
  Cardinality({j \in 1..i : str[j] = "("}) - Cardinality({j \in 1..i : str[j] = ")"})

TypeStartsAtAnyDepth(str) ==
  {i \in 1..Len(str) :
     \E t \in 1..Len(geometryTypes) : StartsWith(str, geometryTypes[t], i)}

\* the positions i at which the loop finds depth === 0 and some type of
\* geometryTypes with str.startsWith(type, i)
TypeStarts(str) ==
  {i \in 1..Len(str) :
     /\ \E t \in 1..Len(geometryTypes) : StartsWith(str, geometryTypes[t], i)
     /\ DepthAt(str, i) = 0}

\* the elements of a set of positions in increasing order
Sorted(S) ==
  [k \in 1..Cardinality(S) |-> CHOOSE b \in S : Cardinality({c \in S : c <= b}) = k]

\* The for loop visits the positions of TypeStarts(str) in increasing order.
\* At each one it pushes the trimmed text from `start` up to that position
\* (when the position is past `start` and the text is not blank) and moves
\* `start` there; at most one type starts at a position, so forEach acts once.
\* After the loop the trimmed text from `start` to the end is pushed likewise.
extractGeometries(str) ==
  LET cuts == Sorted(TypeStarts(str))
      start(k) == IF k = 1 THEN 1 ELSE cuts[k - 1]
      segments == [k \in 1..(Len(cuts) + 1) |->
                     IF k <= Len(cuts)
                     THEN Trim(SubSeq(str, start(k), cuts[k] - 1))
                     ELSE Trim(SubSeq(str, start(k), Len(str)))]
  IN SelectSeq(segments, LAMBDA geometry : geometry # <<>>)

\* ------------------------------------------------------------------------
\* parseGeometryCollection
\* ------------------------------------------------------------------------
\* the position of "(" and of the last ")" of a match of
\* /([A-Z]+)\s*\((.*)\)/i whose letters start at position p; "." does not
\* match a line terminator
MemberOpen(g, p) == RunEnd(g, RunEnd(g, p, IsLetter) + 1, IsWs) + 1
MemberCloses(g, p) ==
  LET k == MemberOpen(g, p)
      lineEnd == RunEnd(g, k + 1, LAMBDA c : ~IsNewline(c))
  IN {q \in (k + 1)..lineEnd : g[q] = ")"}
MemberMatchAt(g, p) ==
  /\ IsLetter(g[p])
  /\ MemberOpen(g, p) <= Len(g)
  /\ g[MemberOpen(g, p)] = "("
  /\ MemberCloses(g, p) # {}

\* geometryWKT.match(/([A-Z]+)\s*\((.*)\)/i): the leftmost match
MemberMatch(g) ==
  LET at == {p \in 1..Len(g) : MemberMatchAt(g, p)}
  IN IF at = {} THEN [found |-> FALSE, type |-> <<>>, data |-> <<>>]
     ELSE LET p == Min(at)
          IN [found |-> TRUE,
              type |-> SubSeq(g, p, RunEnd(g, p, IsLetter)),
              data |-> SubSeq(g, MemberOpen(g, p) + 1, Max(MemberCloses(g, p)) - 1)]

\* the table as it would be if a type without a parser were pushed with no
\* coordinates instead of being thrown
MemberParserNoThrow(type, data) ==
  CASE type = POINT -> Ok(parsePoint(data))
    [] type = LINESTRING -> Ok(parseLineString(data))
    [] type = POLYGON -> parsePolygon(data)
    [] type = MULTIPOINT -> parseMultiPoint(data)
    [] type = MULTILINESTRING -> parseMultiLineString(data)
    [] type = MULTIPOLYGON -> parseMultiPolygon(data)
    [] OTHER -> Ok(<<>>)

\* the parsers table of parseGeometryCollection, applied
MemberParser(type, data) ==
  CASE type = POINT -> Ok(parsePoint(data))
    [] type = LINESTRING -> Ok(parseLineString(data))
    [] type = POLYGON -> parsePolygon(data)
    [] type = MULTIPOINT -> parseMultiPoint(data)
    [] type = MULTILINESTRING -> parseMultiLineString(data)
    [] type = MULTIPOLYGON -> parseMultiPolygon(data)
    [] OTHER -> Throw("Unsupported geometry type", type)

\* components.push({type, coordinates}), unless the parser threw
Component(type, coordinates) ==
  IF ~coordinates.ok THEN coordinates
  ELSE Ok([type |-> type, coordinates |-> coordinates.val])

\* the body of geometries.forEach for one geometryWKT, given its match
ParseMatched(match) ==
  IF ~match.found THEN Throw("Failed to parse geometry WKT", <<>>)
  ELSE Component(ToUpperCase(match.type),
                 MemberParser(ToUpperCase(match.type), Trim(match.data)))

ParseMember(geometryWKT) == ParseMatched(MemberMatch(geometryWKT))

\* geometries.forEach(...), then return components
ParseMembers(geometries) ==
  Collect([i \in 1..Len(geometries) |-> ParseMember(geometries[i])])

parseGeometryCollection(str) == ParseMembers(extractGeometries(str))

\* ------------------------------------------------------------------------
\* wktToGeoJSON, read, toGeoJSON
\* ------------------------------------------------------------------------
\* regExes.typeStr.exec(wkt), typeStr = /^\s*(\w+)\s*\((.*)\)\s*$/
TypeStrExec(wkt) ==
  LET keep == {i \in 1..Len(wkt) : ~IsWs(wkt[i])}
      a == Min(keep)
      z == Max(keep)
      e == RunEnd(wkt, a, IsWord)
      k == RunEnd(wkt, e + 1, IsWs) + 1
      none == [found |-> FALSE, type |-> <<>>, data |-> <<>>]
  IN IF keep = {} THEN none
     ELSE IF /\ e >= a
             /\ k < z
             /\ wkt[k] = "("
             /\ wkt[z] = ")"
             /\ \A j \in (k + 1)..(z - 1) : ~IsNewline(wkt[j])
          THEN [found |-> TRUE, type |-> SubSeq(wkt, a, e),
                data |-> SubSeq(wkt, k + 1, z - 1)]
          ELSE none

\* the table as it would be if a type without a parser fell back to parsePoint
ParserLenient(type, data) ==
  CASE type = POINT -> Ok(parsePoint(data))
    [] type = LINESTRING -> Ok(parseLineString(data))
    [] type = POLYGON -> parsePolygon(data)
    [] type = MULTIPOINT -> parseMultiPoint(data)
    [] type = MULTILINESTRING -> parseMultiLineString(data)
    [] type = MULTIPOLYGON -> parseMultiPolygon(data)
    [] type = GEOMETRYCOLLECTION -> parseGeometryCollection(data)
    [] OTHER -> Ok(parsePoint(data))

\* the parsers table of wktToGeoJSON, applied
Parser(type, data) ==
  CASE type = POINT -> Ok(parsePoint(data))
    [] type = LINESTRING -> Ok(parseLineString(data))
    [] type = POLYGON -> parsePolygon(data)
    [] type = MULTIPOINT -> parseMultiPoint(data)
    [] type = MULTILINESTRING -> parseMultiLineString(data)
    [] type = MULTIPOLYGON -> parseMultiPolygon(data)
    [] type = GEOMETRYCOLLECTION -> parseGeometryCollection(data)
    [] OTHER -> Throw("Unsupported WKT type", type)

\* return { type, geometries: result } or { type, coordinates: result },
\* unless the parser threw
Geometry(type, result) ==
  IF ~result.ok THEN result
  ELSE IF type = GEOMETRYCOLLECTION
       THEN Ok([type |-> type, geometries |-> result.val])
       ELSE Ok([type |-> type, coordinates |-> result.val])

\* wktToGeoJSON as it would be without `if (!match) throw new Error("Invalid WKT")`
DispatchUnchecked(match) ==
  Geometry(ToUpperCase(match.type), Parser(ToUpperCase(match.type), match.data))

\* wktToGeoJSON after the match of typeStr
Dispatch(match) ==
  IF ~match.found THEN Throw("Invalid WKT", <<>>)
  ELSE Geometry(ToUpperCase(match.type),
                Parser(ToUpperCase(match.type), match.data))

wktToGeoJSON(wkt) == Dispatch(TypeStrExec(wkt))

\* what the constructor sets up beside this.features: this.regExes, each
\* regular expression with its lastIndex
NewRegExes == [typeStr |-> 0, spaces |-> 0, comma |-> 0, parenComma |-> 0]

\* the flags typeStr is written with
TypeStrFlagsGlobal == <<"g">>
TypeStrFlags == <<>>

\* RegExp.prototype.exec of typeStr on an instance: what it matches at
\* lastIndex, and the lastIndex it leaves. typeStr is anchored at both ends:
\* it matches from index 0 only, and a match ends where wkt ends
Exec(match, lastIndex, wkt) ==
  IF "g" \notin Range(TypeStrFlags)
  THEN [match |-> match, lastIndex |-> lastIndex]
  ELSE IF lastIndex = 0 /\ match.found
       THEN [match |-> match, lastIndex |-> Len(wkt)]
       ELSE [match |-> [found |-> FALSE, type |-> <<>>, data |-> <<>>],
             lastIndex |-> 0]
TypeStrExecAt(lastIndex, wkt) == Exec(TypeStrExec(wkt), lastIndex, wkt)

\* a label argument: not passed (undefined) or a string
NoLabel == [given |-> FALSE, text |-> ""]
Label(t) == [given |-> TRUE, text |-> t]

\* the array read returns for geoJSON, or throw new Error(error.message)
Internal(geoJSON, label) ==
  IF ~geoJSON.ok THEN Throw(geoJSON.err, geoJSON.kw)
  ELSE Ok(<< [type |-> geoJSON.val.type,
              components |-> IF "coordinates" \in DOMAIN geoJSON.val
                             THEN geoJSON.val.coordinates
                             ELSE geoJSON.val.geometries,
              label |-> label] >>)

read(text, label) == Internal(wktToGeoJSON(cleanWKTString(text)), label)

\* label || ""
NameOf(label) == IF label.given THEN label.text ELSE ""

Feature(type, coordinates, label) ==
  [type |-> "Feature",
   geometry |-> [type |-> type, coordinates |-> coordinates],
   properties |-> [Name |-> NameOf(label)]]

FeaturesOfUnflattened(data) == <<Feature(data.type, data.components, data.label)>>

\* the reduce callback for one entry of dataArray
FeaturesOf(data) ==
  IF data.type = GEOMETRYCOLLECTION
  THEN [i \in 1..Len(data.components) |->
          Feature(data.components[i].type, data.components[i].coordinates, data.label)]
  ELSE <<Feature(data.type, data.components, data.label)>>

RECURSIVE ReduceFeatures(_, _)
ReduceFeatures(dataArray, i) ==
  IF i > Len(dataArray) THEN <<>>
  ELSE FeaturesOf(dataArray[i]) \o ReduceFeatures(dataArray, i + 1)

toGeoJSON(dataArray) ==
  [type |-> "FeatureCollection", features |-> ReduceFeatures(dataArray, 1)]

\* ------------------------------------------------------------------------
\* Input texts: how the WKT handed to the library is written
\* ------------------------------------------------------------------------
RECURSIVE ToStr(_)
ToStr(n) ==
  IF n < 0 THEN <<"-">> \o ToStr(0 - n)
  ELSE IF n < 10 THEN <<DigitSeq[n + 1]>>
  ELSE ToStr(n \div 10) \o <<DigitSeq[(n % 10) + 1]>>

RECURSIVE JoinFrom(_, _, _)
JoinFrom(parts, sep, i) ==
  IF i > Len(parts) THEN <<>>
  ELSE IF i = Len(parts) THEN parts[i]
  ELSE parts[i] \o sep \o JoinFrom(parts, sep, i + 1)
Join(parts, sep) == JoinFrom(parts, sep, 1)

Paren(s) == <<"(">> \o s \o <<")">>
PairText(c) == ToStr(c[1]) \o <<" ">> \o ToStr(c[2])
CoordListText(cs) == Join([i \in 1..Len(cs) |-> PairText(cs[i])], <<",">>)
RingText(cs) == Paren(CoordListText(cs))
RingListText(rings) == Join([i \in 1..Len(rings) |-> RingText(rings[i])], <<",">>)

FOO == <<"F","O","O">>
EMPTY == <<"E","M","P","T","Y">>
LowerPoint == <<"p","o","i","n","t">>
LowerFoo == <<"f","o","o">>

\* the keywords a literal is written with (the last one: no keyword at all)
Keywords ==
  {POINT, LINESTRING, POLYGON, MULTIPOINT, MULTILINESTRING, MULTIPOLYGON,
   GEOMETRYCOLLECTION, FOO, LowerPoint, LowerFoo, <<>>}

\* the texts written after the keyword
Bodies ==
  {<<"1"," ","2">>, <<"1"," ","x">>, <<"1">>, <<>>, <<"1"," ","2"," ","3">>,
   <<"1","\n","2">>,
   CoordListText(<<<<1, 2>>, <<3, 4>>>>),
   <<"0"," ","0",","," ","1"," ","1">>,
   RingListText(<< <<<<1, 2>>>>, <<<<3, 4>>>> >>),
   RingText(<<<<0, 0>>, <<1, 1>>, <<1, 0>>, <<0, 0>>>>),
   Paren(RingText(<<<<0, 0>>, <<4, 0>>, <<0, 0>>>>)) \o <<",">>
     \o Paren(RingText(<<<<1, 1>>, <<2, 1>>, <<1, 1>>>>)),
   EMPTY}

\* how keyword and body are put together
Shapes == {"closed", "unclosed", "overclosed", "bare"}

LiteralText(kw, body, shape) ==
  CASE shape = "closed" -> kw \o Paren(body)
    [] shape = "unclosed" -> kw \o <<"(">> \o body
    [] shape = "overclosed" -> kw \o Paren(body) \o <<")">>
    [] shape = "bare" -> IF body = <<>> THEN kw ELSE kw \o <<" ">> \o body

\* the member literals a collection body is written with
Member(kind, body, valid) ==
  [kind |-> kind, text |-> kind \o Paren(body), valid |-> valid]
Members ==
  {Member(POINT, <<"4"," ","6">>, TRUE),
   Member(LINESTRING, CoordListText(<<<<1, 2>>, <<3, 4>>>>), TRUE),
   Member(POLYGON, RingText(<<<<0, 0>>, <<1, 1>>, <<1, 0>>, <<0, 0>>>>), TRUE),
   Member(MULTIPOINT, RingListText(<< <<<<1, 2>>>>, <<<<3, 4>>>> >>), TRUE),
   Member(MULTILINESTRING,
          RingListText(<< <<<<1, 2>>, <<3, 4>>>>, <<<<5, 6>>, <<7, 8>>>> >>), TRUE),
   Member(MULTIPOLYGON, Paren(RingText(<<<<0, 0>>, <<4, 0>>, <<0, 0>>>>)), TRUE),
   Member(FOO, <<"3"," ","4">>, FALSE),
   [kind |-> POINT, text |-> POINT \o <<"(","(","1"," ","2",")">>, valid |-> FALSE]}

CollectionBody(ms) == Join([i \in 1..Len(ms) |-> ms[i].text], <<",">>)
CollectionText(ms) == GEOMETRYCOLLECTION \o Paren(CollectionBody(ms))

\* a collection nested k levels deep around POINT(1 2)
RECURSIVE NestedText(_)
NestedText(k) ==
  IF k = 0 THEN POINT \o Paren(<<"1"," ","2">>)
  ELSE GEOMETRYCOLLECTION \o Paren(NestedText(k - 1))

\* the j-th ring of the i-th polygon of a MULTIPOLYGON input
RingCoords(i, j) == <<<<i, j>>, <<i + j, j>>, <<i, i + j>>, <<i, j>>>>
PolygonRings(i, r) == [j \in 1..r |-> RingCoords(i, j)]
MultiPolygonBody(rs) ==
  Join([i \in 1..Len(rs) |-> Paren(RingListText(PolygonRings(i, rs[i])))], <<",">>)
MultiPolygonText(rs) == MULTIPOLYGON \o Paren(MultiPolygonBody(rs))

SeqsUpTo(S, n) == UNION {[1..k -> S] : k \in 1..n}

\* well-formed literals of the seven kinds, after the testCases of the source
\* (both MULTIPOINT forms; collections of POINT, LINESTRING, POLYGON)
SamplePoint == POINT \o Paren(<<"1"," ","2">>)
SampleLineString == LINESTRING \o Paren(CoordListText(<<<<1, 2>>, <<3, 4>>>>))
SamplePolygon ==
  POLYGON \o Paren(RingText(<<<<0, 0>>, <<1, 1>>, <<1, 0>>, <<0, 0>>>>))
SampleLiterals ==
  {SamplePoint,
   SampleLineString,
   SamplePolygon,
   MULTIPOINT \o Paren(RingListText(<< <<<<1, 2>>>>, <<<<3, 4>>>> >>)),
   MULTIPOINT \o Paren(CoordListText(<<<<1, 2>>, <<3, 4>>>>)),
   MULTILINESTRING
     \o Paren(RingListText(<< <<<<1, 2>>, <<3, 4>>>>, <<<<5, 6>>, <<7, 8>>>> >>)),
   MultiPolygonText(<<1, 1>>),
   GEOMETRYCOLLECTION \o Paren(SamplePoint \o <<",">> \o SampleLineString),
   GEOMETRYCOLLECTION \o Paren(SamplePolygon \o <<",">> \o SamplePoint),
   GEOMETRYCOLLECTION
     \o Paren(SamplePoint \o <<",">> \o SampleLineString \o <<",">> \o SamplePolygon)}

\* the i-th pair of a MULTIPOINT input, and its two surface forms
PointCoords(i) == <<i - 2, 10 * i>>
MultiPointText(n, style) ==
  IF style = "paren"
  THEN MULTIPOINT
       \o Paren(Join([i \in 1..n |-> Paren(PairText(PointCoords(i)))], <<",">>))
  ELSE MULTIPOINT \o Paren(CoordListText([i \in 1..n |-> PointCoords(i)]))

\* the literals written one per line in a multi-line text
LineLiterals ==
  {SamplePoint,
   SampleLineString,
   GEOMETRYCOLLECTION \o Paren(SamplePoint \o <<",">> \o SampleLineString),
   GEOMETRYCOLLECTION \o Paren(SamplePolygon)}
LinesText(lines) == <<"\n">> \o Join(lines, <<"\n">>) \o <<"\n">>

\* what is written between the two numbers of a coordinate pair
Separators == {<<" ">>, <<"\t">>, <<" ", " ">>, <<" ", "\t">>, <<"+">>}
SeparatedPair(c, sep) == ToStr(c[1]) \o sep \o ToStr(c[2])
\* a POINT of one pair, any other kind as a list of two pairs
SeparatedText(kw, sep) ==
  IF kw = POINT THEN kw \o Paren(SeparatedPair(<<1, 2>>, sep))
  ELSE kw \o Paren(SeparatedPair(<<1, 2>>, sep) \o <<",">> \o SeparatedPair(<<3, 4>>, sep))

\* white space written into a literal: what is written, and where
Gaps == {<<" ">>, <<"\n">>, <<" ", " ">>, <<" ", "\n", " ">>}
Places ==
  {"before", "after", "keyword", "open", "close", "beforeComma", "afterComma"}
PlaceLists ==
  {<<pl>> : pl \in Places}
  \cup {<<"before", "after", "keyword", "open", "close", "beforeComma", "afterComma">>}
Gap(w, place, places) == IF place \in Range(places) THEN w ELSE <<>>
\* the i-th character of text with the white space written around it
PadAt(text, i, w, places) ==
  CASE text[i] = "(" ->
         (IF i > 1 /\ IsLetter(text[i - 1]) THEN Gap(w, "keyword", places) ELSE <<>>)
         \o <<"(">> \o Gap(w, "open", places)
    [] text[i] = ")" -> Gap(w, "close", places) \o <<")">>
    [] text[i] = "," ->
         Gap(w, "beforeComma", places) \o <<",">> \o Gap(w, "afterComma", places)
    [] OTHER -> <<text[i]>>
Pad(text, w, places) ==
  Gap(w, "before", places)
  \o Join([i \in 1..Len(text) |-> PadAt(text, i, w, places)], <<>>)
  \o Gap(w, "after", places)

\* how the letters of a literal are written
Spellings == {"upper", "lower", "capital"}
ToLowerChar(c) ==
  IF c \in Upper THEN LowerSeq[CHOOSE i \in 1..26 : UpperSeq[i] = c] ELSE c
Spell(text, spelling) ==
  CASE spelling = "upper" -> text
    [] spelling = "lower" -> [i \in 1..Len(text) |-> ToLowerChar(text[i])]
    [] spelling = "capital" ->
         [i \in 1..Len(text) |->
            IF i > 1 /\ IsLetter(text[i - 1]) THEN ToLowerChar(text[i]) ELSE text[i]]

Input(form, kw, body, shape, members, depth, rings) ==
  [form |-> form, kw |-> kw, body |-> body, shape |-> shape,
   members |-> members, depth |-> depth, rings |-> rings]

Inputs ==
  {Input("literal", kw, body, shape, <<>>, 0, <<>>) :
     kw \in Keywords, body \in Bodies, shape \in Shapes}
  \cup {Input("collection", GEOMETRYCOLLECTION, <<>>, "closed", ms, 0, <<>>) :
          ms \in SeqsUpTo(Members, MaxMembers)}
  \cup {Input("nested", GEOMETRYCOLLECTION, <<>>, "closed", <<>>, k, <<>>) :
          k \in 1..MaxNest}
  \cup {Input("multipolygon", MULTIPOLYGON, <<>>, "closed", <<>>, 0, rs) :
          rs \in SeqsUpTo(1..MaxRings, MaxPolys)}
  \cup {Input("spelled", <<>>, text, spelling, <<>>, 0, <<>>) :
          text \in SampleLiterals, spelling \in Spellings}
  \cup {Input("spaced", w, text, spelling, places, 0, <<>>) :
          w \in Gaps, text \in SampleLiterals, spelling \in Spellings,
          places \in PlaceLists}
  \cup {Input("multipoint", MULTIPOINT, <<>>, style, <<>>, n, <<>>) :
          style \in {"paren", "bare"}, n \in 1..MaxPoints}
  \cup {Input("lines", <<>>, <<>>, "closed", lines, 0, <<>>) :
          lines \in UNION {[1..n -> LineLiterals] : n \in 2..MaxLines}}
  \cup {Input("separated", kw, sep, "closed", <<>>, 0, <<>>) :
          kw \in {POINT, LINESTRING, MULTIPOINT}, sep \in Separators}
  \cup {Input("pair", <<>>, <<>>, "closed", <<first, second>>, 0, <<>>) :
          first \in LineLiterals, second \in LineLiterals}

TextOf(in) ==
  CASE in.form = "literal" -> LiteralText(in.kw, in.body, in.shape)
    [] in.form = "collection" -> CollectionText(in.members)
    [] in.form = "nested" -> GEOMETRYCOLLECTION \o Paren(NestedText(in.depth))
    [] in.form = "multipolygon" -> MultiPolygonText(in.rings)
    [] in.form = "spelled" -> Spell(in.body, in.shape)
    [] in.form = "separated" -> SeparatedText(in.kw, in.body)
    [] in.form = "lines" -> LinesText(in.members)
    [] in.form = "pair" -> Join(in.members, <<" ">>)
    [] in.form = "multipoint" -> MultiPointText(in.depth, in.shape)
    [] in.form = "spaced" -> Pad(Spell(in.body, in.shape), in.kw, in.members)

Labels == {NoLabel, Label("A")}

\* ------------------------------------------------------------------------
\* The state machine: one GeoWKTer instance and the calls made on it
\* ------------------------------------------------------------------------
VARIABLES
  given,     \* how the input text was written
  wktText,   \* the text handed to the library
  label,     \* the label argument of read
  features,  \* this.features
  regExes,   \* this.regExes: the lastIndex of each regular expression
  wktDataArray, \* what the reads so far returned, one after the other
  calls,     \* how many calls were made on the instance
  call,      \* the last call made
  ret,       \* what the last parsing call returned or threw
  geojson,   \* what toGeoJSON returned
  components \* this.components, a field of the ingest definition only

vars ==
  <<given, wktText, label, features, regExes, wktDataArray, calls, call, ret,
    geojson, components>>

\* undefined, and a value that is not
Undefined == [defined |-> FALSE, val |-> <<>>]
Defined(v) == [defined |-> TRUE, val |-> v]

NoFeatures == [type |-> "FeatureCollection", features |-> <<>>]

\* new GeoWKTer(), no call made yet
Constructed ==
  /\ features = <<>>
  /\ regExes = NewRegExes
  /\ wktDataArray = <<>>
  /\ calls = 0
  /\ call = "none"
  /\ ret = Ok(<<>>)
  /\ geojson = NoFeatures
  /\ components = Undefined

Init ==
  /\ given \in Inputs
  /\ wktText = TextOf(given)
  /\ label \in Labels
  /\ Constructed

\* the match of typeStr that read makes on the text
Dispatched(text) == TypeStrExec(cleanWKTString(text))
IsOfType(match, type) == match.found /\ ToUpperCase(match.type) = type

\* a call that goes through neither typeStr nor this.features
Called(name) ==
  /\ call' = name
  /\ calls' = calls + 1
  /\ UNCHANGED <<given, wktText, label, features, regExes, wktDataArray, geojson, components>>

\* geoWKT.read(wktText, label); the caller keeps what it returns
ReadOn(exec) ==
  /\ ret' = Internal(Dispatch(exec.match), label)
  /\ regExes' = [regExes EXCEPT !.typeStr = exec.lastIndex]
  /\ wktDataArray' = IF ret'.ok THEN wktDataArray \o ret'.val ELSE wktDataArray
Read ==
  /\ call = "none"
  /\ ReadOn(TypeStrExecAt(regExes.typeStr, cleanWKTString(wktText)))
  /\ call' = "read"
  /\ calls' = calls + 1
  /\ UNCHANGED <<given, wktText, label, features, geojson, components>>

\* geoWKT.toGeoJSON(wktDataArray), wktDataArray what the reads returned
ToGeoJSON ==
  /\ call = "read"
  /\ ret.ok
  /\ geojson' = toGeoJSON(wktDataArray)
  /\ call' = "toGeoJSON"
  /\ calls' = calls + 1
  /\ UNCHANGED <<given, wktText, label, features, regExes, wktDataArray, ret, components>>

\* geoWKT.wktToGeoJSON(wktText)
WktToGeoJSONOn(exec) ==
  /\ ret' = Dispatch(exec.match)
  /\ regExes' = [regExes EXCEPT !.typeStr = exec.lastIndex]
WktToGeoJSON ==
  /\ call = "none"
  /\ WktToGeoJSONOn(TypeStrExecAt(regExes.typeStr, wktText))
  /\ call' = "wktToGeoJSON"
  /\ calls' = calls + 1
  /\ UNCHANGED <<given, wktText, label, features, wktDataArray, geojson, components>>

\* geoWKT.extractGeometries(data), data the body of a collection literal
ExtractBody(match) ==
  /\ IsOfType(match, GEOMETRYCOLLECTION)
  /\ ret' = Ok(extractGeometries(match.data))
ExtractGeometries ==
  /\ call = "none"
  /\ ExtractBody(Dispatched(wktText))
  /\ Called("extractGeometries")

\* geoWKT.parseGeometryCollection(data), data the body of a collection literal
ParseBody(match) ==
  /\ IsOfType(match, GEOMETRYCOLLECTION)
  /\ ret' = parseGeometryCollection(match.data)
ParseGeometryCollection ==
  /\ call = "none"
  /\ ParseBody(Dispatched(wktText))
  /\ Called("parseGeometryCollection")

\* geoWKT.parseMultiPolygon(data), data the body of a MULTIPOLYGON literal
ParsePolygons(match) ==
  /\ IsOfType(match, MULTIPOLYGON)
  /\ ret' = parseMultiPolygon(match.data)
ParseMultiPolygon ==
  /\ call = "none"
  /\ ParsePolygons(Dispatched(wktText))
  /\ Called("parseMultiPolygon")

\* geoWKT.parseMultiPoint(data), data the body of a MULTIPOINT literal
ParsePoints(match) ==
  /\ IsOfType(match, MULTIPOINT)
  /\ ret' = parseMultiPoint(match.data)
ParseMultiPoint ==
  /\ call = "none"
  /\ ParsePoints(Dispatched(wktText))
  /\ Called("parseMultiPoint")

Next ==
  \/ Read
  \/ ToGeoJSON
  \/ WktToGeoJSON
  \/ ExtractGeometries
  \/ ParseGeometryCollection
  \/ ParseMultiPolygon
  \/ ParseMultiPoint

Spec == Init /\ [][Next]_vars

\* ------------------------------------------------------------------------
\* One instance, called again and again
\* ------------------------------------------------------------------------
\* the texts of the calls: two that parse, two that fail
CallInputs ==
  {Input("literal", POINT, <<"1"," ","2">>, "closed", <<>>, 0, <<>>),
   Input("literal", POINT, <<"1"," ","2">>, "unclosed", <<>>, 0, <<>>),
   Input("literal", FOO, <<"1"," ","2">>, "closed", <<>>, 0, <<>>),
   Input("collection", GEOMETRYCOLLECTION, <<>>, "closed",
         <<Member(POINT, <<"4"," ","6">>, TRUE),
           Member(LINESTRING, CoordListText(<<<<1, 2>>, <<3, 4>>>>), TRUE)>>,
         0, <<>>)}

InitCalls ==
  /\ given \in CallInputs
  /\ wktText = TextOf(given)
  /\ label \in Labels
  /\ Constructed

\* the caller goes on to its next call, with another text and label
Again ==
  /\ call # "none"
  /\ calls < MaxCalls
  /\ given' \in CallInputs
  /\ wktText' = TextOf(given')
  /\ label' \in Labels
  /\ call' = "none"
  /\ ret' = Ok(<<>>)
  /\ geojson' = NoFeatures
  /\ UNCHANGED <<features, regExes, wktDataArray, calls, components>>

NextCalls ==
  \/ Read
  \/ ToGeoJSON
  \/ WktToGeoJSON
  \/ Again

SpecCalls == InitCalls /\ [][NextCalls]_vars

\* ------------------------------------------------------------------------
\* GeoWKTer.js, the later definition: toGeoJSONHandlers, read, toGeoJSON
\* ------------------------------------------------------------------------
\* the patterns String.prototype.split is called with: pre, then white space
\* (min characters of it or more), then post
\* lead: \s* comes first; alt: the characters that match on their own
Sep(pre, min, post) ==
  [pre |-> pre, min |-> min, post |-> post, lead |-> FALSE, alt |-> {}]
\* /\s+/
Spaces == Sep(<<>>, 1, <<>>)
\* /,\s*/
Comma == Sep(<<",">>, 0, <<>>)
\* /\),\s*\(/
ParenComma == Sep(<<")", ",">>, 0, <<"(">>)
\* /\)\),\s*\(\(/
DoubleParenComma == Sep(<<")", ")", ",">>, 0, <<"(", "(">>)

\* the last position of the match of sep that starts at position i, the
\* white space after pre ending at j (0: no match starts at i)
SepEndVia(str, i, sep, j) ==
  IF /\ j - (i + Len(sep.pre)) + 1 >= sep.min
     /\ StartsWith(str, sep.post, j + 1)
  THEN j + Len(sep.post)
  ELSE 0
SepEndAt(str, i, sep) ==
  IF ~StartsWith(str, sep.pre, i) THEN 0
  ELSE SepEndVia(str, i, sep, RunEnd(str, i + Len(sep.pre), IsWs))
SepEnd(str, i, sep) ==
  IF i <= Len(str) /\ str[i] \in sep.alt THEN i
  ELSE IF sep.lead THEN SepEndAt(str, RunEnd(str, i, IsWs) + 1, sep)
  ELSE SepEndAt(str, i, sep)

\* String.prototype.split(sep): the pieces between the matches, taken left
\* to right, empty pieces kept; hits are the positions from start on where
\* a match of sep starts
RECURSIVE SplitOnFrom(_, _, _)
SplitOnHits(str, sep, start, hits) ==
  IF hits = {} THEN <<SubSeq(str, start, Len(str))>>
  ELSE <<SubSeq(str, start, Min(hits) - 1)>>
       \o SplitOnFrom(str, sep, SepEnd(str, Min(hits), sep) + 1)
SplitOnFrom(str, sep, start) ==
  SplitOnHits(str, sep, start, {i \in start..Len(str) : SepEnd(str, i, sep) > 0})
SplitOn(str, sep) == SplitOnFrom(str, sep, 1)

RECURSIVE Concat(_)
Concat(seqs) == IF seqs = <<>> THEN <<>> ELSE Head(seqs) \o Concat(Tail(seqs))

\* coordPair.split(/\s+/).map(Number)
MapNumber(parts) == [k \in 1..Len(parts) |-> Number(parts[k])]
Numbers(coordPair) == MapNumber(SplitOn(coordPair, Spaces))
\* x.split(/,\s*/).map(coordPair => ...)
MapPairs(parts) == [k \in 1..Len(parts) |-> Numbers(parts[k])]
Pairs(x) == MapPairs(SplitOn(x, Comma))
\* x.split(/\),\s*\(/).map(ring => ring.replace(/[()]/g, '').split(/,\s*/)...)
MapStripped(parts) == [k \in 1..Len(parts) |-> Pairs(StripParens(parts[k]))]

point(rawCoordinates) ==
  [type |-> "Point", coordinates |-> Numbers(rawCoordinates)]

MapStrippedPoints(parts) ==
  [k \in 1..Len(parts) |-> Numbers(StripParens(parts[k]))]
multipoint(rawCoordinates) ==
  [type |-> "MultiPoint",
   coordinates |-> IF "(" \in Range(rawCoordinates)
                   THEN MapStrippedPoints(SplitOn(rawCoordinates, ParenComma))
                   ELSE Pairs(rawCoordinates)]

linestring(rawCoordinates) ==
  [type |-> "LineString", coordinates |-> Pairs(rawCoordinates)]

multilinestring(rawCoordinates) ==
  [type |-> "MultiLineString",
   coordinates |-> MapStripped(SplitOn(rawCoordinates, ParenComma))]

polygon(rawCoordinates) ==
  [type |-> "Polygon",
   coordinates |-> MapStripped(SplitOn(rawCoordinates, ParenComma))]

\* polygon.replace(/^\(/, '') and .replace(/\)$/, '')
DropOpen(x) == IF x # <<>> /\ x[1] = "(" THEN Tail(x) ELSE x
DropClose(x) ==
  IF x # <<>> /\ x[Len(x)] = ")" THEN SubSeq(x, 1, Len(x) - 1) ELSE x
MapRingPairs(parts) == [k \in 1..Len(parts) |-> Pairs(parts[k])]
PolygonRingsOf(x) == MapRingPairs(SplitOn(DropClose(DropOpen(x)), ParenComma))
MapPolygonRings(parts) == [k \in 1..Len(parts) |-> PolygonRingsOf(parts[k])]
multipolygon(rawCoordinates) ==
  [type |-> "MultiPolygon",
   coordinates |-> MapPolygonRings(SplitOn(rawCoordinates, DoubleParenComma))]

\* the for loop of geometrycollection: depth counts "(" up and ")" down, and
\* current is pushed, trimmed, after every character that leaves depth at 0;
\* what is left after the loop is pushed when it is not empty
PushedAt(rawGeometries, ends, k) ==
  Trim(SubSeq(rawGeometries, IF k = 1 THEN 1 ELSE ends[k - 1] + 1, ends[k]))
PushedBy(rawGeometries, ends) ==
  [k \in 1..Len(ends) |-> PushedAt(rawGeometries, ends, k)]
  \o (IF Len(rawGeometries) > (IF ends = <<>> THEN 0 ELSE ends[Len(ends)])
      THEN <<Trim(SubSeq(rawGeometries,
                         (IF ends = <<>> THEN 0 ELSE ends[Len(ends)]) + 1,
                         Len(rawGeometries)))>>
      ELSE <<>>)
Pushed(rawGeometries) ==
  PushedBy(rawGeometries,
           Sorted({i \in 1..Len(rawGeometries) : DepthAt(rawGeometries, i) = 0}))

\* String.prototype.toLowerCase
ToLowerCase(x) == [i \in 1..Len(x) |-> ToLowerChar(x[i])]

\* the keys of toGeoJSONHandlers, and the lower-case keys it inherits from
\* Object.prototype: this.toGeoJSONHandlers[type] is truthy for both
HandlerKeys ==
  {ToLowerCase(POINT), ToLowerCase(MULTIPOINT), ToLowerCase(LINESTRING),
   ToLowerCase(MULTILINESTRING), ToLowerCase(POLYGON), ToLowerCase(MULTIPOLYGON),
   ToLowerCase(GEOMETRYCOLLECTION)}
ConstructorKey == <<"c","o","n","s","t","r","u","c","t","o","r">>
ProtoKey == <<"_","_","p","r","o","t","o","_","_">>
InheritedKeys == {ConstructorKey, ProtoKey}
HasHandler(type) == type \in HandlerKeys \cup InheritedKeys

\* /^\s*(\w+)\s*\((.*)\)\s*$/i, the pattern of read and of geometrycollection
LineMatch(line) == TypeStrExec(line)

RECURSIVE toGeoJSONHandlers(_, _)
RECURSIVE geometrycollection(_)

\* the callback of geometries.map, null filtered out: no, or one, result
NestedOf(match) ==
  IF ~match.found THEN <<>>
  ELSE IF ~HasHandler(ToLowerCase(match.type)) THEN <<>>
  ELSE <<toGeoJSONHandlers(ToLowerCase(match.type), match.data)>>
MapNested(pushed) ==
  Concat([k \in 1..Len(pushed) |-> NestedOf(LineMatch(pushed[k]))])
CollectionOf(geometries) ==
  IF ~geometries.ok THEN geometries
  ELSE Ok([type |-> "GeometryCollection", geometries |-> geometries.val])
geometrycollection(rawGeometries) ==
  CollectionOf(Collect(MapNested(Pushed(rawGeometries))))

\* this.toGeoJSONHandlers[type].call(this, rawCoordinates): Object as a
\* function wraps the string, Object.prototype has no call method
toGeoJSONHandlers(type, rawCoordinates) ==
  CASE type = ToLowerCase(POINT) -> Ok(point(rawCoordinates))
    [] type = ToLowerCase(MULTIPOINT) -> Ok(multipoint(rawCoordinates))
    [] type = ToLowerCase(LINESTRING) -> Ok(linestring(rawCoordinates))
    [] type = ToLowerCase(MULTILINESTRING) -> Ok(multilinestring(rawCoordinates))
    [] type = ToLowerCase(POLYGON) -> Ok(polygon(rawCoordinates))
    [] type = ToLowerCase(MULTIPOLYGON) -> Ok(multipolygon(rawCoordinates))
    [] type = ToLowerCase(GEOMETRYCOLLECTION) -> geometrycollection(rawCoordinates)
    [] type = ConstructorKey -> Ok([wrapped |-> rawCoordinates])
    [] type = ProtoKey -> Throw("TypeError", type)

\* label || 'Unnamed', lbl the label argument
NameOrUnnamed(lbl) ==
  IF lbl.given /\ lbl.text # "" THEN lbl.text ELSE "Unnamed"

\* wktText.split("\n").map(line => line.trim()).filter(line => line.length > 0)
TrimEach(lines) == [k \in 1..Len(lines) |-> Trim(lines[k])]
WktLines(text) == SelectSeq(TrimEach(Split(text, "\n")), LAMBDA line : Len(line) > 0)

\* the callback of wktLines.map, null filtered out: no, or one, result
FeatureOf(geometry, lbl) ==
  IF ~geometry.ok THEN geometry
  ELSE Ok([type |-> "Feature", geometry |-> geometry.val,
           properties |-> [Name |-> NameOrUnnamed(lbl)]])
LineFeature(match, lbl) ==
  IF ~match.found THEN <<>>
  ELSE IF ~HasHandler(ToLowerCase(match.type)) THEN <<>>
  ELSE <<FeatureOf(toGeoJSONHandlers(ToLowerCase(match.type), match.data), lbl)>>
MapLineFeatures(wktLines, lbl) ==
  Concat([k \in 1..Len(wktLines) |-> LineFeature(LineMatch(wktLines[k]), lbl)])
\* what read assigns to this.features, or what it throws
ReadFeatures(text, lbl) == Collect(MapLineFeatures(WktLines(text), lbl))

\* the lines a text handed to read is written with
TextLine(text, valid) == [text |-> text, valid |-> valid]
TextLines ==
  {TextLine(SamplePoint, TRUE),
   TextLine(Spell(SampleLineString, "lower"), TRUE),
   TextLine(FOO \o Paren(<<"1"," ","2">>), FALSE),
   TextLine(POINT \o <<" ","1"," ","2">>, FALSE),
   TextLine(<<" ">>, FALSE),
   TextLine(ConstructorKey \o Paren(<<"1"," ","2">>), FALSE),
   TextLine(ProtoKey \o Paren(<<"1"," ","2">>), FALSE)}
LineTexts(lines) == [k \in 1..Len(lines) |-> lines[k].text]
\* the polygons of the MULTIPOLYGON example: one ring of five pairs each
ExamplePolygons ==
  << <<<<0, 0>>, <<4, 0>>, <<4, 4>>, <<0, 4>>, <<0, 0>>>>,
     <<<<1, 1>>, <<2, 1>>, <<2, 2>>, <<1, 2>>, <<1, 1>>>> >>
ExampleBody ==
  Join([k \in 1..Len(ExamplePolygons) |-> Paren(RingText(ExamplePolygons[k]))],
       <<",">>)

ReadInputs ==
  {Input("lines", <<>>, <<>>, "closed", lines, 0, <<>>) :
     lines \in SeqsUpTo(TextLines, MaxLines)}
HandlerInputs ==
  {Input("multipolygon", MULTIPOLYGON, <<>>, "closed", <<>>, 0, rs) :
     rs \in SeqsUpTo(1..MaxRings, MaxPolys)}
  \cup {Input("literal", MULTIPOLYGON, ExampleBody, "closed", <<>>, 0, <<>>)}
  \cup {Input("collection", GEOMETRYCOLLECTION, <<>>, "closed", ms, 0, <<>>) :
          ms \in SeqsUpTo({m \in Members : m.valid}, MaxMembers)}

LinesOf(in) ==
  IF in.form = "lines" THEN LinesText(LineTexts(in.members)) ELSE TextOf(in)

InitHandlers ==
  /\ given \in ReadInputs \cup HandlerInputs
  /\ wktText = LinesOf(given)
  /\ label \in Labels
  /\ Constructed

\* geoWKTer.read(wktText, label)
ReadInto(assigned) ==
  /\ features' = IF assigned.ok THEN assigned.val ELSE features
  /\ ret' = IF assigned.ok THEN Ok(<<>>) ELSE assigned
ReadLines ==
  /\ call = "none"
  /\ ReadInto(ReadFeatures(wktText, label))
  /\ call' = "read"
  /\ calls' = calls + 1
  /\ UNCHANGED <<given, wktText, label, regExes, wktDataArray, geojson, components>>

\* geoWKTer.toGeoJSON()
FeatureCollection ==
  /\ call = "read"
  /\ geojson' = [type |-> "FeatureCollection", features |-> features]
  /\ call' = "toGeoJSON"
  /\ calls' = calls + 1
  /\ UNCHANGED <<given, wktText, label, features, regExes, wktDataArray, ret, components>>

\* toGeoJSONHandlers.geometrycollection and .multipolygon, called on the
\* body of the literal as read calls them
HandleBody(match, type) ==
  /\ match.found
  /\ ToLowerCase(match.type) = type
  /\ ret' = toGeoJSONHandlers(type, match.data)
HandleGeometryCollection ==
  /\ call = "none"
  /\ HandleBody(LineMatch(wktText), ToLowerCase(GEOMETRYCOLLECTION))
  /\ Called("geometrycollection")
HandleMultiPolygon ==
  /\ call = "none"
  /\ HandleBody(LineMatch(wktText), ToLowerCase(MULTIPOLYGON))
  /\ Called("multipolygon")

\* the caller goes on to its next read, with another text and label
ReadAgain ==
  /\ call \in {"read", "toGeoJSON"}
  /\ calls < MaxCalls
  /\ given' \in ReadInputs
  /\ wktText' = LinesOf(given')
  /\ label' \in Labels
  /\ call' = "none"
  /\ ret' = Ok(<<>>)
  /\ geojson' = NoFeatures
  /\ UNCHANGED <<features, regExes, wktDataArray, calls, components>>

NextHandlers ==
  \/ ReadLines
  \/ FeatureCollection
  \/ HandleGeometryCollection
  \/ HandleMultiPolygon
  \/ ReadAgain

SpecHandlers == InitHandlers /\ [][NextHandlers]_vars

\* ------------------------------------------------------------------------
\* GeoWKTer.js, the first definition: read, toJson and the ingest table
\* ------------------------------------------------------------------------
\* regExes.spaces /\s+|\+/ and regExes.comma /\s*,\s*/
SpacesOrPlus == [Sep(<<>>, 1, <<>>) EXCEPT !.alt = {"+"}]
WsComma == [Sep(<<",">>, 0, <<>>) EXCEPT !.lead = TRUE]

\* GeoWKTer.prototype.trim(str): the spaces at both ends are taken off
TrimSpacesTo(str, kept) ==
  IF kept = {} THEN <<>> ELSE SubSeq(str, Min(kept), Max(kept))
TrimSpaces(str) == TrimSpacesTo(str, {i \in 1..Len(str) : str[i] # " "})

\* { x: coords[0], y: coords[1] }
ItemAt(coords, k) == IF k <= Len(coords) THEN Defined(coords[k]) ELSE Undefined
XY(coords) == [x |-> ItemAt(coords, 1), y |-> ItemAt(coords, 2)]

\* ingest.point and ingest.linestring
ingestPoint(str) == <<XY(MapNumber(SplitOn(TrimSpaces(str), SpacesOrPlus)))>>
MapXY(pairs) ==
  [k \in 1..Len(pairs) |-> XY(MapNumber(SplitOn(Trim(pairs[k]), SpacesOrPlus)))]
ingestLinestring(str) == MapXY(SplitOn(str, WsComma))

\* this.ingest[this.type]: the keys of the table and what every object
\* inherits
HasIngest(type) == type \in HandlerKeys \cup InheritedKeys
\* this.ingest[this.type].call(this, this.base), for the handlers that the
\* lines read below reach
ingest(type, base) ==
  CASE type = ToLowerCase(POINT) -> Ok(ingestPoint(base))
    [] type = ToLowerCase(LINESTRING) -> Ok(ingestLinestring(base))
    [] type = ProtoKey -> Throw("TypeError", type)

\* type[0].toUpperCase() + type.slice(1).toLowerCase()
Capitalized(type) == <<ToUpperChar(type[1])>> \o ToLowerCase(Tail(type))
\* toJson(type, components), type not 'geometrycollection'
toJson(type, comps) ==
  [type |-> "Feature",
   geometry |-> [type |-> Capitalized(type), coordinates |-> comps],
   properties |-> <<>>]

\* the instance while read goes through the lines
Instance(feats, comps, thrown) ==
  [features |-> feats, components |-> comps, thrown |-> thrown]
\* this.components = ...; this.features.push(this.toJson(...))
Pushing(this, type, comps) ==
  Instance(Append(this.features, toJson(type, comps)), comps, this.thrown)
Ingesting(this, type, parsed) ==
  IF ~parsed.ok THEN Instance(this.features, this.components, parsed)
  ELSE Pushing(this, type, Defined(parsed.val))
\* the callback of lines.forEach, the line trimmed and not empty
ReadMatch(this, matches, type) ==
  IF ~matches.found THEN this
  ELSE IF HasIngest(type) THEN Ingesting(this, type, ingest(type, matches.data))
  ELSE Pushing(this, type, this.components)
ReadLine(this, line) ==
  ReadMatch(this, TypeStrExec(line), ToLowerCase(TypeStrExec(line).type))
\* lines.forEach, which an exception ends
RECURSIVE ForEachLine(_, _)
ForEachLine(this, lines) ==
  IF lines = <<>> \/ ~this.thrown.ok THEN this
  ELSE ForEachLine(ReadLine(this, Head(lines)), Tail(lines))
\* wktText.trim().split(/\r?\n/), then line.trim() and if (line)
IngestLines(text) ==
  SelectSeq(TrimEach(Split(Trim(text), "\n")), LAMBDA line : Len(line) > 0)
IngestRead(this, text) == ForEachLine(this, IngestLines(text))

\* the lines read: two with a handler, one with a keyword that has none,
\* one that is no literal
IngestTextLines ==
  {TextLine(SamplePoint, TRUE),
   TextLine(SampleLineString, TRUE),
   TextLine(FOO \o Paren(<<"3", " ", "4">>), FALSE),
   TextLine(POINT \o <<" ", "1", " ", "2">>, FALSE)}
OneLine == {Input("lines", <<>>, <<>>, "closed", <<l>>, 0, <<>>) : l \in IngestTextLines}
TwoLines ==
  {Input("lines", <<>>, <<>>, "closed", <<l, m>>, 0, <<>>) :
     l \in IngestTextLines, m \in IngestTextLines}

InitIngest ==
  /\ given \in OneLine \cup TwoLines
  /\ wktText = LinesOf(given)
  /\ label = NoLabel
  /\ Constructed

\* geoWKTer.read(wktText)
IngestReadTo(this) ==
  /\ features' = this.features
  /\ components' = this.components
  /\ ret' = this.thrown
IngestReadLines ==
  /\ call = "none"
  /\ IngestReadTo(IngestRead(Instance(features, components, Ok(<<>>)), wktText))
  /\ call' = "read"
  /\ calls' = calls + 1
  /\ UNCHANGED <<given, wktText, label, regExes, wktDataArray, geojson>>

\* the caller goes on to its next read, with one more line
IngestReadAgain ==
  /\ call = "read"
  /\ calls < MaxCalls
  /\ given' \in OneLine
  /\ wktText' = LinesOf(given')
  /\ call' = "none"
  /\ ret' = Ok(<<>>)
  /\ UNCHANGED <<label, features, regExes, wktDataArray, calls, geojson, components>>

NextIngest ==
  \/ IngestReadLines
  \/ IngestReadAgain

SpecIngest == InitIngest /\ [][NextIngest]_vars

\* ------------------------------------------------------------------------
\* What the properties speak of
\* ------------------------------------------------------------------------
Supported ==
  {POINT, LINESTRING, POLYGON, MULTIPOINT, MULTILINESTRING, MULTIPOLYGON,
   GEOMETRYCOLLECTION}

Count(s, c) == Cardinality({i \in 1..Len(s) : s[i] = c})
Balanced(s) == Count(s, "(") = Count(s, ")")

\* the text has the shape keyword ( ... ): a keyword of word characters, then
\* "(", and ")" as its last character (white space around them left aside)
HasLiteralShape(s) ==
  LET t == Trim(s)
      k == RunEnd(t, RunEnd(t, 1, IsWord) + 1, IsWs) + 1
  IN /\ t # <<>>
     /\ IsWord(t[1])
     /\ k < Len(t)
     /\ t[k] = "("
     /\ t[Len(t)] = ")"

\* the keyword of a text of that shape
KeywordOf(s) == SubSeq(Trim(s), 1, RunEnd(Trim(s), 1, IsWord))

\* no line terminator from the first "(" of the text on
BodyOnOneLine(s) ==
  \A i \in 1..Len(s) : IsNewline(s[i]) => \A j \in 1..i : s[j] # "("

\* how many array levels lie above the coordinates of a geometry of a type
Nesting(type) ==
  CASE type = POINT -> 0
    [] type \in {LINESTRING, MULTIPOINT} -> 1
    [] type \in {POLYGON, MULTILINESTRING} -> 2
    [] type = MULTIPOLYGON -> 3

RECURSIVE CoordsAt(_, _)
CoordsAt(v, d) ==
  IF d = 0 THEN {v} ELSE UNION {CoordsAt(v[i], d - 1) : i \in 1..Len(v)}

\* the coordinates held by one entry of the array read returns
CoordsOf(data) ==
  IF data.type = GEOMETRYCOLLECTION
  THEN UNION {CoordsAt(data.components[i].coordinates,
                       Nesting(data.components[i].type)) :
                i \in 1..Len(data.components)}
  ELSE CoordsAt(data.components, Nesting(data.type))
Coordinates(dataArray) == UNION {CoordsOf(dataArray[i]) : i \in 1..Len(dataArray)}

AllValid(ms) == \A i \in 1..Len(ms) : ms[i].valid

\* the inputs that are well-formed literals of a supported kind
Canonical(in) ==
  CASE in.form = "literal" ->
         /\ in.shape = "closed"
         /\ <<in.kw, in.body>> \in
              {<<POINT, <<"1"," ","2">>>>,
               <<LINESTRING, CoordListText(<<<<1, 2>>, <<3, 4>>>>)>>,
               <<POLYGON, RingText(<<<<0, 0>>, <<1, 1>>, <<1, 0>>, <<0, 0>>>>)>>,
               <<MULTIPOINT, RingListText(<< <<<<1, 2>>>>, <<<<3, 4>>>> >>)>>}
    [] in.form = "collection" -> AllValid(in.members)
    [] in.form = "nested" -> FALSE
    [] in.form = "multipolygon" -> TRUE
    [] OTHER -> FALSE

\* the value a ring written from integer pairs stands for
RingValue(cs) == [n \in 1..Len(cs) |-> <<Num(cs[n][1]), Num(cs[n][2])>>]
\* the value a MULTIPOLYGON input with ring counts rs stands for
MultiPolygonValue(rs) ==
  [i \in 1..Len(rs) |-> [j \in 1..rs[i] |-> RingValue(RingCoords(i, j))]]

\* the GeoJSON names of the geometry types
GeoJSONTypes ==
  {<<"P","o","i","n","t">>,
   <<"L","i","n","e","S","t","r","i","n","g">>,
   <<"P","o","l","y","g","o","n">>,
   <<"M","u","l","t","i","P","o","i","n","t">>,
   <<"M","u","l","t","i","L","i","n","e","S","t","r","i","n","g">>,
   <<"M","u","l","t","i","P","o","l","y","g","o","n">>,
   <<"G","e","o","m","e","t","r","y","C","o","l","l","e","c","t","i","o","n">>}
\* the GeoJSON name of an upper-case keyword
GeoJSONType(type) == CHOOSE n \in GeoJSONTypes : ToUpperCase(n) = type

\* ------------------------------------------------------------------------
\* Properties
\* ------------------------------------------------------------------------

\* C1 (as claimed; the code violates it): for a GEOMETRYCOLLECTION body that
\* is a comma-separated list of n >= 1 complete literals of the six kinds,
\* extractGeometries returns exactly n substrings, the i-th holding the whole
\* i-th literal from its keyword's first letter, and parseGeometryCollection
\* returns exactly n components of the same kinds in the same order.
C1_SiblingIndependence ==
  (given.form = "collection" /\ AllValid(given.members)) =>
    /\ call = "extractGeometries" =>
         /\ Len(ret.val) = Len(given.members)
         /\ \A i \in 1..Len(given.members) :
              StartsWith(ret.val[i], given.members[i].text, 1)
    /\ call = "parseGeometryCollection" =>
         /\ ret.ok
         /\ Len(ret.val) = Len(given.members)
         /\ \A i \in 1..Len(given.members) :
              ret.val[i].type = given.members[i].kind

C3_NoNaNCoordinate ==
  (call = "read" /\ ret.ok /\ Balanced(wktText)) =>
    \A c \in Coordinates(ret.val) : \A i \in 1..Len(c) : ~c[i].nan

\* C4 (as claimed; the code violates it): if some member literal of a
\* GEOMETRYCOLLECTION body is invalid (unsupported keyword, or not parseable),
\* read throws for the whole literal; stated for the inputs whose parentheses
\* balance, so that the member alone decides it.
C4_AllOrNothing ==
  (/\ call = "read"
   /\ given.form = "collection"
   /\ ~AllValid(given.members)
   /\ Balanced(wktText)) =>
    ~ret.ok

\* C5 (as claimed; the code violates it): for a MULTIPOLYGON body of k >= 1
\* polygon groups, the i-th with r_i >= 1 rings, parseMultiPolygon returns k
\* polygons in input order, the i-th with its r_i rings in input order, each
\* ring with its coordinates in input order.
C5_MultiPolygonDecomposition ==
  (call = "parseMultiPolygon" /\ given.form = "multipolygon") =>
    /\ ret.ok
    /\ ret.val = MultiPolygonValue(given.rings)

\* C6 (as claimed; the code violates it): read fails for every input in which
\* the numbers of "(" and of ")" differ.
C6_UnbalancedRejected ==
  (call = "read" /\ ~Balanced(wktText)) => ~ret.ok

C8_NoShapeIsInvalidWKT ==
  (call \in {"read", "wktToGeoJSON"} /\ ~HasLiteralShape(wktText)) =>
    /\ ~ret.ok
    /\ ret.err = "Invalid WKT"
    /\ ret.kw = <<>>

\* read was given MULTIPOINT EMPTY and threw "Invalid WKT"
C8_MultiPointEmptyRead ==
  /\ wktText = MULTIPOINT \o <<" ">> \o EMPTY
  /\ call = "read"
  /\ ret.err = "Invalid WKT"

\* C9 (as claimed; the code violates it): every coordinate of every result
\* read returns is a two-element array; stated for the inputs whose
\* parentheses balance, so that the number of tokens alone decides it.
C9_CoordinateArity ==
  (call = "read" /\ ret.ok /\ Balanced(wktText)) =>
    \A c \in Coordinates(ret.val) : Len(c) = 2

\* C10 (as claimed; the code violates it): after read and toGeoJSON of a
\* supported literal, the type of every geometry object of the output is the
\* GeoJSON name of the kind (Point, LineString, ...); wktToGeoJSON names a
\* collection GeometryCollection and gives it a geometries list.
C10_GeoJSONTypeNames ==
  Canonical(given) =>
    /\ call = "toGeoJSON" =>
         \A i \in 1..Len(geojson.features) :
           geojson.features[i].geometry.type \in GeoJSONTypes
    /\ (call = "wktToGeoJSON" /\ ret.ok) =>
         /\ ret.val.type = GeoJSONType(KeywordOf(wktText))
         /\ ret.val.type = GeoJSONType(GEOMETRYCOLLECTION) =>
              "geometries" \in DOMAIN ret.val

\* C11 (as claimed; the code violates it): read of a literal of a supported
\* kind written in any upper/lower-case spelling of its keywords, at the top
\* level and inside a GEOMETRYCOLLECTION body, gives the result read gives
\* for the all-uppercase spelling.
C11_CaseInsensitiveKeywords ==
  (given.form = "spelled" /\ call = "read") => ret = read(given.body, label)

\* C12 (as claimed; the code violates it): a coordinate pair whose two
\* numbers are separated by a run of spaces and tabs or by "+" parses to the
\* coordinate that the single-space form gives.
C12_TokenSeparators ==
  given.form = "separated" =>
    /\ call = "read" => ret = read(SeparatedText(given.kw, <<" ">>), label)
    /\ call = "wktToGeoJSON" =>
         ret = wktToGeoJSON(SeparatedText(given.kw, <<" ">>))

\* C13 (as claimed; the code violates it): for a well-formed literal of each
\* of the seven kinds, spaces and newlines written before or after the
\* literal, between a keyword and its "(", after "(", before ")" and around
\* "," do not change the result of read; and read(cleanWKTString(w)) equals
\* read(w).
C13_WhitespaceInsignificant ==
  (given.form = "spaced" /\ call = "read") =>
    /\ ret = read(Spell(given.body, given.shape), label)
    /\ ret = read(cleanWKTString(wktText), label)

\* C14: for a list of n >= 1 coordinate pairs, parseMultiPoint gives the n
\* coordinates in input order both for the form (p1),...,(pn) and for the
\* bare form p1,...,pn.
C14_MultiPointBothForms ==
  (given.form = "multipoint" /\ call = "parseMultiPoint") =>
    ret = Ok([i \in 1..given.depth |->
                <<Num(PointCoords(i)[1]), Num(PointCoords(i)[2])>>])

\* parseMultiPoint was given a bare list of several pairs and returned
C14_BareListParsed ==
  /\ given.form = "multipoint"
  /\ given.shape = "bare"
  /\ given.depth > 1
  /\ call = "parseMultiPoint"
  /\ Len(ret.val) = given.depth

\* C15 (as claimed; the code violates it): for a text of n >= 2 well-formed
\* literals, one per line, read returns n geometry objects, the i-th being
\* what read returns for the i-th line alone, with the given label.
C15_OneGeometryPerLine ==
  (given.form = "lines" /\ call = "read") =>
    /\ ret.ok
    /\ Len(ret.val) = Len(given.members)
    /\ \A i \in 1..Len(given.members) :
         ret.val[i] = read(given.members[i], label).val[1]

\* C16: on one instance called again and again, successes and failures in
\* any order, every read and wktToGeoJSON gives what the same call gives on
\* a newly constructed instance, toGeoJSON gives what its argument alone
\* determines, and no call changes this.features or this.regExes
C16_PureCalls ==
  /\ [](/\ call = "read" => ret = read(wktText, label)
        /\ call = "wktToGeoJSON" => ret = wktToGeoJSON(wktText)
        /\ call = "toGeoJSON" => geojson = toGeoJSON(wktDataArray))
  /\ [][features' = features /\ regExes' = regExes]_vars

\* a read that parses, made after calls that left nothing to the caller
C16_ReadAfterOtherCalls ==
  /\ calls >= 2
  /\ call = "read"
  /\ ret.ok
  /\ wktDataArray = ret.val

\* how many Features an entry of dataArray stands for, and how many come
\* before those of the k-th entry
Width(data) ==
  IF data.type = GEOMETRYCOLLECTION THEN Len(data.components) ELSE 1
RECURSIVE Offset(_, _)
Offset(dataArray, k) ==
  IF k <= 1 THEN 0 ELSE Offset(dataArray, k - 1) + Width(dataArray[k - 1])
\* the geometry the i-th Feature of an entry is to carry
GeometryAt(data, i) ==
  IF data.type = GEOMETRYCOLLECTION
  THEN [type |-> data.components[i].type,
        coordinates |-> data.components[i].coordinates]
  ELSE [type |-> data.type, coordinates |-> data.components]
IsFeatureOf(feature, data, i) ==
  /\ feature.type = "Feature"
  /\ feature.geometry = GeometryAt(data, i)
  /\ feature.properties = [Name |-> IF data.label.given THEN data.label.text ELSE ""]
Flattened(fs, dataArray) ==
  /\ Len(fs) = Offset(dataArray, Len(dataArray) + 1)
  /\ Len(fs) = Cardinality({k \in 1..Len(dataArray) :
                              dataArray[k].type # GEOMETRYCOLLECTION})
               + Offset([k \in 1..Len(dataArray) |->
                           IF dataArray[k].type = GEOMETRYCOLLECTION
                           THEN dataArray[k]
                           ELSE [dataArray[k] EXCEPT !.type = GEOMETRYCOLLECTION,
                                                     !.components = <<>>]],
                        Len(dataArray) + 1)
  /\ \A k \in 1..Len(dataArray) : \A i \in 1..Width(dataArray[k]) :
       IsFeatureOf(fs[Offset(dataArray, k) + i], dataArray[k], i)

\* C17: toGeoJSON of what successful reads returned is a FeatureCollection
\* whose features are, entry after entry, one Feature per member of a
\* GEOMETRYCOLLECTION entry in member order and one Feature for any other
\* entry, each named by its entry's label ("" without a label)
C17_FlattenedFeatures ==
  call = "toGeoJSON" =>
    /\ geojson.type = "FeatureCollection"
    /\ Flattened(geojson.features, wktDataArray)

\* toGeoJSON of a collection entry and another entry under different labels
C17_MixedEntriesConverted ==
  /\ call = "toGeoJSON"
  /\ \E j, k \in 1..Len(wktDataArray) :
       /\ wktDataArray[j].type = GEOMETRYCOLLECTION
       /\ wktDataArray[k].type # GEOMETRYCOLLECTION
       /\ wktDataArray[j].label # wktDataArray[k].label
  /\ Len(geojson.features) > Len(wktDataArray)

\* the lines of the text that have the TYPE(...) shape and a supported
\* keyword, as written
ValidLines(in) == SelectSeq(in.members, LAMBDA line : line.valid)
\* the feature a valid line stands for under a label
IsFeatureOfLine(feature, line, lbl) ==
  /\ feature.type = "Feature"
  /\ feature.properties = [Name |-> IF lbl.given THEN lbl.text ELSE "Unnamed"]
  /\ feature.geometry
       = toGeoJSONHandlers(ToLowerCase(LineMatch(line.text).type),
                           LineMatch(line.text).data).val
FeaturesOfLines(fs, lines, lbl) ==
  /\ Len(fs) = Len(lines)
  /\ \A i \in 1..Len(lines) : IsFeatureOfLine(fs[i], lines[i], lbl)

\* C18: after any reads, toGeoJSON() is a FeatureCollection with one feature
\* per line of the last read's text that has the TYPE(...) shape and a
\* supported keyword, in line order, named by that read's label ('Unnamed'
\* without one); other lines are skipped and nothing of earlier reads remains
C18_FeaturesOfLastRead ==
  (given.form = "lines" /\ call = "toGeoJSON") =>
    /\ geojson.type = "FeatureCollection"
    /\ FeaturesOfLines(geojson.features, ValidLines(given), label)

\* the geometry the handlers give for a member literal of a collection
MemberGeometry(m) ==
  toGeoJSONHandlers(ToLowerCase(LineMatch(m.text).type), LineMatch(m.text).data).val

\* C19: for a body of n >= 1 valid member literals the geometrycollection
\* handler returns type GeometryCollection and n geometries, the i-th that
\* of the i-th member
C19_CollectionMembers ==
  (given.form = "collection" /\ call = "geometrycollection") =>
    /\ ret.ok
    /\ ret.val.type = "GeometryCollection"
    /\ Len(ret.val.geometries) = Len(given.members)
    /\ \A i \in 1..Len(given.members) :
         ret.val.geometries[i] = MemberGeometry(given.members[i])

\* the value the MULTIPOLYGON example stands for
ExampleValue == [k \in 1..Len(ExamplePolygons) |-> <<RingValue(ExamplePolygons[k])>>]

\* C20: for a MULTIPOLYGON of k >= 1 polygons of one or more rings the
\* multipolygon handler returns the pairs written, nested as polygons, rings,
\* pairs; the example of two one-ring polygons gives its two squares
C20_MultiPolygonPairs ==
  call = "multipolygon" =>
    /\ ret.ok
    /\ ret.val.type = "MultiPolygon"
    /\ given.form = "multipolygon" =>
         ret.val.coordinates = MultiPolygonValue(given.rings)
    /\ given.form = "literal" => ret.val.coordinates = ExampleValue

\* the parentheses of a text match: depth never below 0, and 0 at the end
NeverNegative(s) == \A i \in 1..Len(s) : DepthAt(s, i) >= 0
WellNested(s) == NeverNegative(s) /\ DepthAt(s, Len(s)) = 0
\* a type keyword is written inside parentheses of the text
KeywordInside(s) ==
  \E i \in 1..Len(s) :
    /\ DepthAt(s, i) > 0
    /\ \E t \in 1..Len(geometryTypes) : StartsWith(s, geometryTypes[t], i)
\* the elements of a list before its last
ButLast(list) == SubSeq(list, 1, Len(list) - 1)
AllButLastClosed(list, body) ==
  \A k \in 1..Len(ButLast(list)) :
    /\ Count(list[k], "(") = Count(list[k], ")")
    /\ NeverNegative(body) => WellNested(list[k])

\* C21: extractGeometries ends a segment only where the depth is 0: every
\* substring it returns but the last has as many "(" as ")", and is well
\* nested when the depth of the body never goes below 0; a body whose only
\* type keywords are inside parentheses comes back as one segment
C21_DepthGate ==
  call = "extractGeometries" =>
    /\ AllButLastClosed(ret.val, Dispatched(wktText).data)
    /\ given.form = "nested" => ret.val = <<Dispatched(wktText).data>>

\* a body with a keyword inside parentheses, returned whole
C21_InnerKeywordKept ==
  /\ call = "extractGeometries"
  /\ KeywordInside(Dispatched(wktText).data)
  /\ Len(ret.val) = 1
  /\ WellNested(ret.val[1])

\* a returned element is a closed literal: a type keyword first, ")" last,
\* no white space around it
ClosedLiteral(geometry) ==
  /\ geometry # <<>>
  /\ \E t \in 1..Len(geometryTypes) : StartsWith(geometry, geometryTypes[t], 1)
  /\ geometry[Len(geometry)] = ")"
  /\ geometry = Trim(geometry)
\* the body is well formed: valid members, none with a keyword that holds
\* another keyword
PlainMembers(ms) ==
  \A i \in 1..Len(ms) : ms[i].valid /\ ms[i].kind \in {POINT, LINESTRING, POLYGON}

\* C22: for a well-formed body every substring extractGeometries returns,
\* the last one too, is freed of surrounding white space and of the comma
\* that follows it: it begins with a type keyword and ends with ")"
C22_SegmentsClosed ==
  (given.form = "collection" /\ PlainMembers(given.members)
   /\ call = "extractGeometries") =>
    \A k \in 1..Len(ret.val) : ClosedLiteral(ret.val[k])

\* the first "(" of a text, the ")" that matches it (0 when there is none),
\* and the text between the two
FirstOpen(s) == Min({i \in 1..Len(s) : s[i] = "("})
MatchingClose(s) ==
  IF \E j \in (FirstOpen(s) + 1)..Len(s) : DepthAt(s, j) = 0
  THEN Min({j \in (FirstOpen(s) + 1)..Len(s) : DepthAt(s, j) = 0})
  ELSE 0
MatchedBody(s) == SubSeq(s, FirstOpen(s) + 1, MatchingClose(s) - 1)
\* something other than white space is written after the matching ")"
TextAfterClose(s) ==
  /\ MatchingClose(s) > 0
  /\ \E j \in (MatchingClose(s) + 1)..Len(s) : ~IsWs(s[j])

\* C23: the body wktToGeoJSON hands to the parser is the text between the
\* first "(" after the keyword and the ")" that matches it, and a text with
\* anything but white space after that ")", such as two literals in one
\* string, fails with Invalid WKT
C23_BodyToMatchingParen ==
  (call = "wktToGeoJSON" /\ Balanced(wktText) /\ "(" \in Range(wktText)) =>
    /\ TextAfterClose(wktText) => ret = Throw("Invalid WKT", <<>>)
    /\ TypeStrExec(wktText).found =>
         TypeStrExec(wktText).data = MatchedBody(wktText)

\* what read pushes for one line when nothing was read before it
FreshInstance == Instance(<<>>, Undefined, Ok(<<>>))
OfLineAlone(line) == ReadLine(FreshInstance, line).features
MapOfLineAlone(lines) == [k \in 1..Len(lines) |-> OfLineAlone(lines[k])]
LastPushed(feats, n) == SubSeq(feats, Len(feats) - n + 1, Len(feats))
PushedFor(feats, alone) == LastPushed(feats, Len(alone)) = alone

\* C24: in the ingest definition, the feature that read pushes for a line
\* depends on that line only, whatever was read before it on the instance:
\* the features pushed by a read are, line by line, those that each of its
\* lines gives when it is read alone on a new instance.
C24_LineAlone ==
  call = "read" => PushedFor(features, Concat(MapOfLineAlone(IngestLines(wktText))))

\* the payload of a kind: a coordinate is a list of numbers with at least one
\* number, and every list around it has at least one element
IsNumber(n) == n \in [nan : BOOLEAN, v : Int]
IsCoordinate(c) == Len(c) >= 1 /\ \A k \in 1..Len(c) : IsNumber(c[k])
IsCoordinates(cs) == Len(cs) >= 1 /\ \A k \in 1..Len(cs) : IsCoordinate(cs[k])
IsLists(ls) == Len(ls) >= 1 /\ \A k \in 1..Len(ls) : IsCoordinates(ls[k])
IsListsOfLists(ps) == Len(ps) >= 1 /\ \A k \in 1..Len(ps) : IsLists(ps[k])
PayloadOfKind(type, payload) ==
  CASE type = POINT -> IsCoordinate(payload)
    [] type \in {LINESTRING, MULTIPOINT} -> IsCoordinates(payload)
    [] type \in {POLYGON, MULTILINESTRING} -> IsLists(payload)
    [] type = MULTIPOLYGON -> IsListsOfLists(payload)
    [] OTHER -> FALSE
NodeOfKind(node) == PayloadOfKind(node.type, node.coordinates)
NodesOfKind(nodes) == \A k \in 1..Len(nodes) : NodeOfKind(nodes[k])

\* C25: whenever wktToGeoJSON returns a result, the nesting of its payload
\* is that of its kind: a POINT holds one coordinate, a LINESTRING or
\* MULTIPOINT a list of coordinates, a POLYGON or MULTILINESTRING a list of
\* such lists, a MULTIPOLYGON a list of lists of such lists, and a
\* GEOMETRYCOLLECTION a list of nodes of which each obeys the same rule; no
\* coordinate and no list of coordinates is empty.
C25_PayloadOfKind ==
  (call = "wktToGeoJSON" /\ ret.ok) =>
    IF ret.val.type = GEOMETRYCOLLECTION
    THEN NodesOfKind(ret.val.geometries)
    ELSE PayloadOfKind(ret.val.type, ret.val.coordinates)
C25_CollectionOfTwoKinds ==
  /\ call = "wktToGeoJSON"
  /\ ret.ok
  /\ ret.val.type = GEOMETRYCOLLECTION
  /\ Len(ret.val.geometries) = 2
  /\ ret.val.geometries[1].type # ret.val.geometries[2].type
  /\ NodesOfKind(ret.val.geometries)
============================================================================
